---- MODULE Spec2Model ----
(***************************************************************************)
(* Step-up (two-factor) authentication of the Motoka backend.              *)
(*                                                                         *)
(* The persistent store is the `profiles` table (one row per identity);    *)
(* every `await supabaseAdmin.from('profiles')...` of the service is one   *)
(* atomic store round trip, and a request handler is a sequence of such    *)
(* round trips.  `req` holds, per worker (an event-loop task serving one   *)
(* HTTP request), the handler being run, its position, its inputs and its  *)
(* local variables.  With one worker requests run one after the other;     *)
(* with two workers their store round trips interleave.                    *)
(*                                                                         *)
(* Strings are modelled as integers: a login token, an e-mail code and a   *)
(* TOTP secret are small positive numbers, a recovery code is a positive   *)
(* number whose lower-case spelling is its negation.  Timestamps are whole *)
(* minutes, starting at 1; NULL is the SQL NULL of a scalar column.        *)
(*                                                                         *)
(* Beside the step-up handlers the module holds the profile cache of the   *)
(* authenticate middleware with the suspension of an account, the soft     *)
(* delete of a car, the password reset by one-time code, and the TOTP      *)
(* verification second by second; each has a specification of its own.     *)
(***************************************************************************)
EXTENDS Integers, Sequences, FiniteSets, TLC

VARIABLES profiles, req, now, hist,
          profileCache, cars, password_reset_tokens, passwords, totp

\* what the step-up handlers never touch: the profile cache of the
\* authenticate middleware, the cars table, the password reset table, the
\* passwords kept by the identity provider, and the authenticator's clock
other == <<profileCache, cars, password_reset_tokens, passwords, totp>>

vars == <<profiles, req, now, hist, other>>

-----------------------------------------------------------------------------
(* Bounds of the model *)

MaxTicks == 2
TickMinutes == 10
NumTokens == 2
NumEmailCodes == 2
NumSecrets == 2
MaxMinutes == 12
ScenarioDelay == 11

CacheCeiling == 5
NumSlugs == 2
NumOtps == 2
NumResetTokens == 2
NumPasswords == 2
SkewSeconds == 15
MaxSkewTicks == 14

(* Program constants *)

NULL == 0
CacheTTL == 10
OtpTTL == 15
ResetGraceMinutes == 5
LoginTokenTTL == 10
EmailCodeTTL == 10
RecoveryCount == 8
TotpWindow == 2
TotpStep == 30
SecondsPerMinute == 60

Tokens == 1..NumTokens
EmailCodes == 1..NumEmailCodes
Secrets == 1..NumSecrets
StartTime == 1
EndTime == StartTime + MaxTicks * TickMinutes

-----------------------------------------------------------------------------
(* Pure functions of the service *)

\* String.prototype.toUpperCase on a recovery code
toUpperCase(c) == IF c < 0 THEN 0 - c ELSE c

\* the arrays Array.from({length: 8}, () => generateToken(8).toUpperCase())
\* can return: eight random draws, pairwise distinct or not
generateRecoveryCodes ==
  { [i \in 1..RecoveryCount |-> i],
    [i \in 1..RecoveryCount |-> IF i = 2 THEN 1 ELSE i] }

\* the recovery codes a client submits: a stored code, its lower-case
\* spelling, and a second code
RecoveryInputs == {1, 0 - 1, 2}

\* speakeasy's time-step counter: Math.floor(seconds / 30)
CounterAt(seconds) == seconds \div TotpStep

\* the counter at minute t
Counter(t) == CounterAt(t * SecondsPerMinute)

\* the one-time code of a secret at a counter (HOTP, collision free)
Totp(secret, counter) == secret * 100 + counter

\* a verification that tolerates one step only
VerifyDelta_OneStep(secret, code, counter) ==
  \E i \in (counter - 1)..(counter + 1) : code = Totp(secret, i)

\* speakeasy.totp.verify with window: 2: the token is compared with the
\* codes of the counters from two before to two after the current one
VerifyDelta(secret, code, counter) ==
  \E i \in (counter - TotpWindow)..(counter + TotpWindow) :
     code = Totp(secret, i)

\* speakeasy.totp.verify({secret, token: code, window: 2}) at minute t
verifyGoogleAuthCode(secret, code, t) ==
  VerifyDelta(secret, code, Counter(t))

\* Array.prototype.includes
Includes(codes, c) == \E i \in 1..Len(codes) : codes[i] = c

\* codes.filter(c => c !== upperCode)
RECURSIVE Filter(_, _)
Filter(codes, c) ==
  IF codes = <<>> THEN <<>>
  ELSE IF Head(codes) = c THEN Filter(Tail(codes), c)
       ELSE <<Head(codes)>> \o Filter(Tail(codes), c)

\* the nullable JSONB column two_factor_recovery_codes: {} is NULL,
\* {codes} is the stored array
NoCodes == {}
StoredCodes(row) == CHOOSE codes \in row.two_factor_recovery_codes : TRUE

-----------------------------------------------------------------------------
(* Store updates and checks of the service, on one profiles row *)

\* a create2FALoginToken that keeps a challenge that is already stored
StoreLoginToken_KeepFirst(row, token, t) ==
  IF row.two_factor_login_token # NULL THEN row
  ELSE [row EXCEPT !.two_factor_login_token = token,
                   !.two_factor_login_expires_at = t + LoginTokenTTL]

\* a create2FALoginToken whose challenge lives twice as long
StoreLoginToken_LongLived(row, token, t) ==
  [row EXCEPT !.two_factor_login_token = token,
              !.two_factor_login_expires_at = t + 2 * LoginTokenTTL]

\* create2FALoginToken: the update
StoreLoginToken(row, token, t) ==
  [row EXCEPT !.two_factor_login_token = token,
              !.two_factor_login_expires_at = t + LoginTokenTTL]

\* verify2FALoginToken without the comparison of the tokens
TokenCheck_NoCompare(row, token, t) ==
  IF row.two_factor_login_token = NULL THEN "NoLoginPending"
  ELSE IF row.two_factor_login_expires_at < t THEN "LoginSessionExpired"
  ELSE "ok"

\* verify2FALoginToken without the expiry check
TokenCheck_NoExpiry(row, token, t) ==
  IF row.two_factor_login_token = NULL THEN "NoLoginPending"
  ELSE IF row.two_factor_login_token # token THEN "InvalidLoginToken"
  ELSE "ok"

\* verify2FALoginToken comparing the tokens before it looks at the expiry
TokenCheck_CompareFirst(row, token, t) ==
  IF row.two_factor_login_token = NULL THEN "NoLoginPending"
  ELSE IF row.two_factor_login_token # token THEN "InvalidLoginToken"
  ELSE IF row.two_factor_login_expires_at < t THEN "LoginSessionExpired"
  ELSE "ok"

\* verify2FALoginToken: the three checks, in order
TokenCheck(row, token, t) ==
  IF row.two_factor_login_token = NULL THEN "NoLoginPending"
  ELSE IF row.two_factor_login_expires_at < t THEN "LoginSessionExpired"
  ELSE IF row.two_factor_login_token # token THEN "InvalidLoginToken"
  ELSE "ok"

\* a verify2FALoginToken that leaves the token in place
ClearLoginToken_Keep(row) == row

\* verify2FALoginToken: the update
ClearLoginToken(row) ==
  [row EXCEPT !.two_factor_login_token = NULL,
              !.two_factor_login_expires_at = NULL]

\* generateEmail2FACode: the update
StoreEmailCode(row, code, t) ==
  [row EXCEPT !.two_factor_email_code = code,
              !.two_factor_email_expires_at = t + EmailCodeTTL]

\* a verifyEmail2FACode that takes any code while one is pending
EmailCheck_NoCompare(row, code, t) ==
  IF row.two_factor_email_code = NULL THEN "No2FACodePending"
  ELSE IF row.two_factor_email_expires_at < t THEN "2FACodeExpired"
  ELSE "ok"

\* verifyEmail2FACode comparing the codes before it looks at the expiry
EmailCheck_CompareFirst(row, code, t) ==
  IF row.two_factor_email_code = NULL THEN "No2FACodePending"
  ELSE IF row.two_factor_email_code # code THEN "Invalid2FACode"
  ELSE IF row.two_factor_email_expires_at < t THEN "2FACodeExpired"
  ELSE "ok"

\* verifyEmail2FACode: the three checks, in order
EmailCheck(row, code, t) ==
  IF row.two_factor_email_code = NULL THEN "No2FACodePending"
  ELSE IF row.two_factor_email_expires_at < t THEN "2FACodeExpired"
  ELSE IF row.two_factor_email_code # code THEN "Invalid2FACode"
  ELSE "ok"

\* verifyEmail2FACode: the update
ClearEmailCode(row) ==
  [row EXCEPT !.two_factor_email_code = NULL,
              !.two_factor_email_expires_at = NULL]

\* verifyRecoveryCode: the two checks
RecoveryCheck(row, code) ==
  IF row.two_factor_recovery_codes = NoCodes THEN "NoRecoveryCodes"
  ELSE IF ~Includes(StoredCodes(row), toUpperCase(code)) THEN "InvalidRecoveryCode"
  ELSE "ok"

\* verifyRecoveryCode: the codes that remain
RemainingCodes(codes, code) == Filter(codes, toUpperCase(code))

\* generateGoogleAuthSecret: the update
StoreSecret(row, secret) ==
  [row EXCEPT !.two_factor_secret = secret,
              !.two_factor_type = "google",
              !.two_factor_enabled = FALSE,
              !.two_factor_confirmed_at = NULL]

\* confirmGoogleAuth: the update
ConfirmGoogle(row, codes, t) ==
  [row EXCEPT !.two_factor_enabled = TRUE,
              !.two_factor_confirmed_at = t,
              !.two_factor_recovery_codes = {codes}]

\* enableEmail2FA: the update
EnableEmail(row, t) ==
  [row EXCEPT !.two_factor_enabled = TRUE,
              !.two_factor_type = "email",
              !.two_factor_confirmed_at = t,
              !.two_factor_secret = NULL]

\* disable2FA: the update
Disable(row) ==
  [row EXCEPT !.two_factor_enabled = FALSE,
              !.two_factor_type = "null",
              !.two_factor_secret = NULL,
              !.two_factor_recovery_codes = NoCodes,
              !.two_factor_confirmed_at = NULL,
              !.two_factor_email_code = NULL,
              !.two_factor_email_expires_at = NULL]


-----------------------------------------------------------------------------
(* The profile cache of the authenticate middleware: a Map, here the
   sequence of its entries in insertion order *)

\* the position of a key in the Map, 0 if it has none
CacheIndex(cache, userId) ==
  IF \E i \in 1..Len(cache) : cache[i].key = userId
  THEN CHOOSE i \in 1..Len(cache) : cache[i].key = userId
  ELSE 0

\* Map.delete
CacheDelete(cache, userId) ==
  SelectSeq(cache, LAMBDA e : e.key # userId)

\* a getCachedProfile that never looks at expiresAt
getCachedProfile_NoExpiry(cache, userId, t) ==
  LET i == CacheIndex(cache, userId) IN
  IF i = 0 THEN [hit |-> FALSE, profile |-> <<>>, cache |-> cache]
  ELSE [hit |-> TRUE, profile |-> <<cache[i].profile>>, cache |-> cache]

\* getCachedProfile: the snapshot (a one-element sequence) or null (the
\* empty sequence), and the Map afterwards; an entry past its expiresAt is
\* deleted
getCachedProfile(cache, userId, t) ==
  LET i == CacheIndex(cache, userId) IN
  IF i = 0 THEN [hit |-> FALSE, profile |-> <<>>, cache |-> cache]
  ELSE IF t > cache[i].expiresAt
  THEN [hit |-> FALSE, profile |-> <<>>, cache |-> CacheDelete(cache, userId)]
  ELSE [hit |-> TRUE, profile |-> <<cache[i].profile>>, cache |-> cache]

\* the number of entries evicted at once: 2000 of 10000, a fifth of the
\* ceiling
EvictCount == CacheCeiling \div 5

\* the place of entry i after entries.sort((a, b) => a.expiresAt -
\* b.expiresAt), a stable sort, counted from 0
SortRank(cache, i) ==
  Cardinality({j \in 1..Len(cache) :
                 \/ cache[j].expiresAt < cache[i].expiresAt
                 \/ cache[j].expiresAt = cache[i].expiresAt /\ j < i})

\* an eviction that takes the entries that expire last
Evicted_Latest(cache) ==
  {cache[i].key : i \in {j \in 1..Len(cache) :
                           SortRank(cache, j) >= Len(cache) - EvictCount}}

\* the keys of entries.slice(0, 2000)
Evicted(cache) ==
  {cache[i].key : i \in {j \in 1..Len(cache) : SortRank(cache, j) < EvictCount}}

\* setCachedProfile: above the ceiling the entries that expire first are
\* deleted; then Map.set, which keeps the place of a key that is present
setCachedProfile(cache, userId, profile, t) ==
  LET c == IF Len(cache) > CacheCeiling
           THEN SelectSeq(cache, LAMBDA e : e.key \notin Evicted(cache))
           ELSE cache
      entry == [key |-> userId, profile |-> profile, expiresAt |-> t + CacheTTL]
      i == CacheIndex(c, userId)
  IN  IF i = 0 THEN Append(c, entry) ELSE [c EXCEPT ![i] = entry]

-----------------------------------------------------------------------------
(* Initial state *)

\* a profiles row as the signup trigger creates it
NewProfile ==
  [ email                       |-> TRUE,
    two_factor_secret           |-> NULL,
    two_factor_recovery_codes   |-> NoCodes,
    two_factor_enabled          |-> FALSE,
    two_factor_type             |-> "null",
    two_factor_email_code       |-> NULL,
    two_factor_email_expires_at |-> NULL,
    two_factor_login_token      |-> NULL,
    two_factor_login_expires_at |-> NULL,
    two_factor_confirmed_at     |-> NULL,
    is_suspended                |-> FALSE,
    deleted_at                  |-> NULL ]

\* a worker that serves no request.  The h_ fields are history: what held
\* in the store when the handler made its checks.
IdleReq ==
  [ op |-> "idle", pc |-> "idle", user |-> 0, temp_token |-> NULL,
    code |-> NULL, type |-> "null", enabled |-> FALSE, codes |-> <<>>,
    result |-> "", out |-> NULL,
    h_token |-> FALSE, h_code |-> FALSE, h_late |-> FALSE,
    h_after |-> FALSE, h_stale |-> FALSE, h_reuse |-> FALSE,
    h_lastTok |-> FALSE, h_lastCode |-> FALSE, h_count |-> 0,
    h_mail |-> "none", h_cur |-> FALSE, h_used |-> NULL,
    h_stored |-> "none", h_tokLate |-> FALSE,
    h_codeStored |-> "none", h_codeLate |-> FALSE,
    h_scenarioC |-> FALSE, h_afterFail |-> FALSE,
    h_log |-> "none", profile |-> <<>>, h_cache |-> "none",
    h_evict |-> FALSE, h_suspended |-> FALSE,
    slug |-> NULL, listed |-> {}, h_gone |-> FALSE, h_enabled |-> FALSE,
    h_oldToken |-> FALSE ]

\* history of an identity: the token and the code last written and not yet
\* cleared, whether the last token replaced another one, how often each was consumed since, the recovery codes of the
\* current batch reported consumed (and whether one was reported twice),
\* whether a login completed since the last challenge was issued, whether a
\* challenge or a code was outstanding when the factor was disabled, and
\* when the login handler answered with the challenge that is stored.  The
\* h_cur field of a request says that it passed the token check of the
\* challenge issued last, h_afterFail that it completed a login after
\* another submission admitted with the same challenge had failed, and
\* h_scenarioC that it submitted the issued token and the e-mailed code
\* ScenarioDelay minutes after the login handler answered.
NewHist ==
  [ tokLast |-> NULL, tokReplaced |-> FALSE, codeLast |-> NULL,
    tokUses |-> 0, codeUses |-> 0,
    recUsed |-> {}, recTwice |-> FALSE, authSince |-> FALSE,
    staleTok |-> FALSE, staleCode |-> FALSE,
    loginAt |-> NULL ]

\* the other subsystems have served no request
OtherInit ==
  /\ profileCache = <<>>
  /\ cars = <<>>
  /\ password_reset_tokens = <<>>
  /\ passwords = <<>>
  /\ totp = <<>>

Init ==
  /\ profiles = [u \in {1} |-> NewProfile]
  /\ req = [w \in {1} |-> IdleReq]
  /\ now = StartTime
  /\ hist = [u \in {1} |-> NewHist]
  /\ OtherInit

\* the rows of an identity whose factor is enabled: e-mail, or TOTP with
\* its recovery codes
EnrolledProfiles ==
  {EnableEmail(NewProfile, StartTime)} \cup
  {ConfirmGoogle(StoreSecret(NewProfile, s), codes, StartTime) :
     s \in {1}, codes \in generateRecoveryCodes}

\* two workers, an identity that has enrolled a factor
InitConc ==
  /\ profiles \in [{1} -> EnrolledProfiles]
  /\ req = [w \in {1, 2} |-> IdleReq]
  /\ now = StartTime
  /\ hist = [u \in {1} |-> NewHist]
  /\ OtherInit

-----------------------------------------------------------------------------
(* Helpers of the actions *)

Begin(w) == req[w].pc \in {"idle", "done"}

NewReq(op, u, token, code) ==
  [IdleReq EXCEPT !.op = op, !.user = u, !.temp_token = token, !.code = code]

\* an update that writes to the first row whatever the identity
WhereId_First(userId) == 1

\* .eq('id', userId): the row an update of the service writes to
WhereId(userId) == userId

\* the response is recorded; the request body is dropped
Respond(r, result, out) ==
  [r EXCEPT !.pc = "done", !.result = result, !.out = out,
            !.temp_token = NULL, !.code = NULL]

Bump(n) == IF n < 2 THEN n + 1 ELSE n

\* another request admitted with the same challenge as w's has failed
FailedBefore(w) ==
  /\ req[w].h_cur
  /\ \E v \in DOMAIN req \ {w} :
        /\ req[v].user = req[w].user
        /\ req[v].h_cur
        /\ req[v].pc = "done"
        /\ req[v].result \in {"Invalid2FACode", "InvalidRecoveryCode",
                               "NoRecoveryCodes"}

-----------------------------------------------------------------------------
(* What the contract requires of a check, stated on the stored row *)

ChallengeHolds(row, token, t) ==
  /\ row.two_factor_login_token # NULL
  /\ row.two_factor_login_token = token
  /\ ~(t > row.two_factor_login_expires_at)

EmailCodeHolds(row, code, t) ==
  /\ row.two_factor_email_code # NULL
  /\ row.two_factor_email_code = code
  /\ ~(t > row.two_factor_email_expires_at)

TotpHolds(row, code, t) ==
  /\ row.two_factor_secret # NULL
  /\ \E k \in (Counter(t) - 3)..(Counter(t) + 3) :
        /\ code = Totp(row.two_factor_secret, k)
        /\ k - Counter(t) \in {0 - 2, 0 - 1, 0, 1, 2}

RecoveryHolds(row, code) ==
  /\ row.two_factor_recovery_codes # NoCodes
  /\ \E i \in DOMAIN StoredCodes(row) : StoredCodes(row)[i] = toUpperCase(code)

-----------------------------------------------------------------------------
(* POST /api/login (and POST /api/verify-login-otp, the same flow) *)

\* login: a second factor is asked for if the profile has one enabled
RequiresStepUp_IfSecret(profile) ==
  profile.two_factor_enabled \/ profile.two_factor_secret # NULL

RequiresStepUp(profile) == profile.two_factor_enabled

\* the primary credential is verified; the handler reads the profile
login(w, u) ==
  /\ Begin(w)
  /\ LET profile == profiles[u]
         r == [NewReq("login", u, NULL, NULL) EXCEPT
                 !.enabled = profile.two_factor_enabled]
     IN  req' = [req EXCEPT ![w] =
                  IF RequiresStepUp(profile)
                  THEN [r EXCEPT !.pc = "create2FALoginToken",
                                 !.type = profile.two_factor_type]
                  ELSE Respond(r, "LoginSuccessful", NULL)]
  /\ UNCHANGED <<profiles, now, hist, other>>

\* create2FALoginToken: a random token is stored with its expiry
create2FALoginToken(w) ==
  /\ req[w].pc = "create2FALoginToken"
  /\ \E token \in Tokens :
       LET u == req[w].user IN
       /\ profiles' = [profiles EXCEPT ![WhereId(u)] = StoreLoginToken(@, token, now)]
       /\ hist' = [hist EXCEPT ![u] = [@ EXCEPT !.tokLast = token,
                                                !.tokReplaced =
                                                    /\ profiles[u].two_factor_login_token # NULL
                                                    /\ profiles[u].two_factor_login_token # token,
                                                !.tokUses = 0,
                                                !.authSince = FALSE,
                                                !.staleTok = FALSE,
                                                !.loginAt =
                                                    IF req[w].type = "email"
                                                    THEN NULL ELSE now]]
       /\ req' = [v \in DOMAIN req |->
                   IF v = w
                   THEN IF req[w].type = "email"
                        THEN [req[w] EXCEPT !.pc = "generateEmail2FACode",
                                            !.out = token]
                        ELSE Respond(req[w], "Requires2FA", token)
                   ELSE IF req[v].user = u
                        THEN [req[v] EXCEPT !.h_cur = FALSE]
                        ELSE req[v]]
  /\ UNCHANGED <<now, other>>

\* a generateEmail2FACode that ignores the failure of the dispatch
DispatchResponse_Swallow(r, sent) ==
  LET r2 == [r EXCEPT !.h_mail = IF sent THEN "sent" ELSE "failed",
                      !.h_log = "code"] IN
  IF r.op = "login" THEN Respond(r2, "Requires2FA", r.out)
  ELSE Respond(r2, "CodeSent", NULL)

\* generateEmail2FACode after its update: sendEmail2FACode throws on a
\* transport failure, the service rethrows, and the handler's catch answers
\* with a server error; otherwise the handler answers with its success.
\* The service logs the identity and the error message of a failed dispatch;
\* the handler that gets the code back writes it to the console
\* (`2FA Code for ${email}: ${code}`), which h_log records.
DispatchResponse(r, sent) ==
  LET r2 == [r EXCEPT !.h_mail = IF sent THEN "sent" ELSE "failed",
                      !.h_log = IF sent THEN "code" ELSE "error"] IN
  IF ~sent THEN Respond(r2, "ServerError", NULL)
  ELSE IF r.op = "login" THEN Respond(r2, "Requires2FA", r.out)
       ELSE Respond(r2, "CodeSent", NULL)

\* generateEmail2FACode: a random code is stored with its expiry and mailed;
\* a failed dispatch throws after the code is stored
generateEmail2FACode(w) ==
  /\ req[w].pc = "generateEmail2FACode"
  /\ LET u == req[w].user IN
     IF ~profiles[u].email
     THEN /\ req' = [req EXCEPT ![w] = Respond(@, "ServerError", NULL)]
          /\ UNCHANGED <<profiles, hist>>
     ELSE \E code \in EmailCodes, sent \in BOOLEAN :
          /\ profiles' = [profiles EXCEPT ![WhereId(u)] = StoreEmailCode(@, code, now)]
          /\ hist' = [hist EXCEPT ![u] = [@ EXCEPT !.codeLast = code,
                                                   !.codeUses = 0,
                                                   !.staleCode = FALSE,
                                                   !.loginAt =
                                                       IF req[w].op = "login" /\ sent
                                                       THEN now ELSE @]]
          /\ req' = [req EXCEPT ![w] = DispatchResponse(@, sent)]
  /\ UNCHANGED <<now, other>>

-----------------------------------------------------------------------------
(* POST /api/2fa/verify-login and POST /api/2fa/verify-recovery *)

\* verify2FALoginToken: the read and the checks.  op is "verify2FALogin" or
\* "verifyRecoveryCode".
verify2FALoginToken(w, op, u, token, code) ==
  /\ Begin(w)
  /\ LET row == profiles[u]
         outcome == TokenCheck(row, token, now)
         r == [NewReq(op, u, token, code) EXCEPT
                 !.h_token = ChallengeHolds(row, token, now),
                 !.h_late = /\ row.two_factor_login_token # NULL
                            /\ now > row.two_factor_login_expires_at,
                 !.h_after = hist[u].authSince,
                 !.h_stale = hist[u].staleTok,
                 !.h_lastTok = (token = hist[u].tokLast),
                 !.h_scenarioC = /\ hist[u].loginAt # NULL
                                 /\ now - hist[u].loginAt = ScenarioDelay
                                 /\ token = hist[u].tokLast
                                 /\ code = hist[u].codeLast,
                 !.h_tokLate = /\ row.two_factor_login_token # NULL
                               /\ now > row.two_factor_login_expires_at,
                 !.h_stored = IF row.two_factor_login_token = NULL THEN "absent"
                              ELSE IF row.two_factor_login_token = token
                                   THEN "matches" ELSE "differs"]
     IN  req' = [req EXCEPT ![w] =
                  IF outcome = "ok"
                  THEN [r EXCEPT !.pc = "clearLoginToken", !.h_cur = TRUE]
                  ELSE Respond(r, outcome, NULL)]
  /\ UNCHANGED <<profiles, now, hist, other>>

\* verify2FALoginToken: the token is cleared and the function returns true
clearLoginToken(w) ==
  /\ req[w].pc = "clearLoginToken"
  /\ LET u == req[w].user IN
     /\ profiles' = [profiles EXCEPT ![WhereId(u)] = ClearLoginToken(@)]
     /\ hist' = [hist EXCEPT ![u] = [@ EXCEPT !.tokUses = Bump(@),
                                              !.tokLast = NULL,
                                              !.tokReplaced = FALSE,
                                              !.loginAt = NULL]]
  /\ req' = [req EXCEPT ![w].pc =
              IF req[w].op = "verify2FALogin" THEN "readFactor"
              ELSE "readRecoveryCodes"]
  /\ UNCHANGED <<now, other>>

\* verify2FALogin: the profile's method and secret are read; a TOTP code is
\* verified at once, an e-mail code by verifyEmail2FACode.  h_enabled records
\* whether the factor was enabled in the row that was read.
readFactor(w) ==
  /\ req[w].pc = "readFactor"
  /\ LET u == req[w].user
         profile == profiles[u]
         isValid == verifyGoogleAuthCode(profile.two_factor_secret, req[w].code, now)
     IN  IF profile.two_factor_type = "google"
         THEN /\ req' = [req EXCEPT ![w] =
                    IF isValid
                    THEN Respond([@ EXCEPT !.type = "google",
                                    !.h_enabled = profile.two_factor_enabled,
                                    !.h_code = TotpHolds(profile, req[w].code, now),
                                    !.h_afterFail = FailedBefore(w)],
                                 "Authenticated", NULL)
                    ELSE Respond([@ EXCEPT !.type = "google"], "Invalid2FACode", NULL)]
              /\ hist' = [hist EXCEPT ![u].authSince = @ \/ isValid]
         ELSE IF profile.two_factor_type = "email"
         THEN /\ req' = [req EXCEPT ![w] = [@ EXCEPT !.type = "email",
                                                     !.h_enabled = profile.two_factor_enabled,
                                                     !.pc = "verifyEmail2FACode"]]
              /\ UNCHANGED hist
         ELSE /\ req' = [req EXCEPT ![w] = Respond(@, "Invalid2FACode", NULL)]
              /\ UNCHANGED hist
  /\ UNCHANGED <<profiles, now, other>>

\* verifyEmail2FACode: the read and the checks.  verify2FALogin reports every
\* failure as an invalid code, POST /api/2fa/verify-email reports the error.
EmailRead(w, r) ==
  LET u == r.user
      row == profiles[u]
      outcome == EmailCheck(row, r.code, now)
      r2 == [r EXCEPT !.h_code = EmailCodeHolds(row, r.code, now),
                      !.h_late = \/ @
                                 \/ /\ row.two_factor_email_code # NULL
                                    /\ now > row.two_factor_email_expires_at,
                      !.h_stale = @ \/ hist[u].staleCode,
                      !.h_lastCode = (r.code = hist[u].codeLast),
                      !.h_codeLate = /\ row.two_factor_email_code # NULL
                                     /\ now > row.two_factor_email_expires_at,
                      !.h_codeStored =
                          IF row.two_factor_email_code = NULL THEN "absent"
                          ELSE IF row.two_factor_email_code = r.code
                               THEN "matches" ELSE "differs"]
  IN  /\ req' = [req EXCEPT ![w] =
                  IF outcome = "ok" THEN [r2 EXCEPT !.pc = "clearEmailCode"]
                  ELSE IF r.op = "verify2FALogin"
                       THEN Respond(r2, "Invalid2FACode", NULL)
                       ELSE Respond(r2, outcome, NULL)]
      /\ UNCHANGED <<profiles, now, hist, other>>

verifyEmail2FACode(w) ==
  /\ req[w].pc = "verifyEmail2FACode"
  /\ EmailRead(w, req[w])

\* POST /api/2fa/verify-email
verifyEmailAuth(w, u, code) ==
  /\ Begin(w)
  /\ EmailRead(w, NewReq("verifyEmailAuth", u, NULL, code))

\* verifyEmail2FACode: the code is cleared and the function returns true
clearEmailCode(w) ==
  /\ req[w].pc = "clearEmailCode"
  /\ LET u == req[w].user
         isLogin == req[w].op = "verify2FALogin"
     IN  /\ profiles' = [profiles EXCEPT ![WhereId(u)] = ClearEmailCode(@)]
         /\ hist' = [hist EXCEPT ![u] = [@ EXCEPT !.codeUses = Bump(@),
                                                  !.codeLast = NULL,
                                                  !.authSince = @ \/ isLogin]]
         /\ req' = [req EXCEPT ![w] =
                     IF isLogin
                     THEN Respond([@ EXCEPT !.h_afterFail = FailedBefore(w)],
                                  "Authenticated", NULL)
                     ELSE Respond(@, "EmailVerified", NULL)]
  /\ UNCHANGED <<now, other>>

\* verifyRecoveryCode: the read and the checks
readRecoveryCodes(w) ==
  /\ req[w].pc = "readRecoveryCodes"
  /\ LET u == req[w].user
         row == profiles[u]
         outcome == RecoveryCheck(row, req[w].code)
         r == [req[w] EXCEPT !.h_code = RecoveryHolds(row, req[w].code),
                             !.h_reuse = toUpperCase(req[w].code) \in hist[u].recUsed]
     IN  req' = [req EXCEPT ![w] =
                  IF outcome = "ok"
                  THEN [r EXCEPT !.pc = "writeRecoveryCodes",
                                 !.codes = RemainingCodes(StoredCodes(row), req[w].code),
                                 !.h_count = Len(StoredCodes(row))]
                  ELSE Respond(r, outcome, NULL)]
  /\ UNCHANGED <<profiles, now, hist, other>>

\* verifyRecoveryCode: the reduced set is persisted and its size returned
writeRecoveryCodes(w) ==
  /\ req[w].pc = "writeRecoveryCodes"
  /\ LET u == req[w].user
         used == toUpperCase(req[w].code)
     IN  /\ profiles' = [profiles EXCEPT
                           ![WhereId(u)].two_factor_recovery_codes = {req[w].codes}]
         /\ hist' = [hist EXCEPT ![u] = [@ EXCEPT
                        !.recTwice = @ \/ used \in hist[u].recUsed,
                        !.recUsed = @ \cup {used},
                        !.authSince = TRUE]]
         /\ req' = [req EXCEPT ![w] =
                     Respond([@ EXCEPT !.h_used = used,
                                       !.h_afterFail = FailedBefore(w)],
                             "RecoveryVerified", Len(req[w].codes))]
  /\ UNCHANGED <<now, other>>

-----------------------------------------------------------------------------
(* Enrollment, disablement, status *)

\* get2FAStatus: what the service returns for a row
StatusEnabled(row) == row.two_factor_enabled
StatusMethod(row) == row.two_factor_type

\* POST /api/2fa/enable-google: the status check
enableGoogleAuth(w, u) ==
  /\ Begin(w)
  /\ LET r == NewReq("enableGoogleAuth", u, NULL, NULL) IN
     req' = [req EXCEPT ![w] =
              IF StatusEnabled(profiles[u])
              THEN Respond(r, "AlreadyEnabled", NULL)
              ELSE [r EXCEPT !.pc = "generateGoogleAuthSecret"]]
  /\ UNCHANGED <<profiles, now, hist, other>>

\* generateGoogleAuthSecret: a random secret is stored, not yet enabled
generateGoogleAuthSecret(w) ==
  /\ req[w].pc = "generateGoogleAuthSecret"
  /\ \E secret \in Secrets :
       /\ profiles' = [profiles EXCEPT ![WhereId(req[w].user)] = StoreSecret(@, secret)]
       /\ req' = [req EXCEPT ![w] = Respond(@, "SetupInitiated", secret)]
  /\ UNCHANGED <<now, hist, other>>

\* POST /api/2fa/verify-google: confirmGoogleAuth reads the secret and
\* verifies the code
verifyGoogleAuth(w, u, code) ==
  /\ Begin(w)
  /\ LET profile == profiles[u]
         r == NewReq("verifyGoogleAuth", u, NULL, code)
     IN  req' = [req EXCEPT ![w] =
                  IF profile.two_factor_secret = NULL
                  THEN Respond(r, "NotInitialized", NULL)
                  ELSE IF ~verifyGoogleAuthCode(profile.two_factor_secret, code, now)
                  THEN Respond(r, "InvalidVerificationCode", NULL)
                  ELSE [r EXCEPT !.pc = "confirmGoogleAuth"]]
  /\ UNCHANGED <<profiles, now, hist, other>>

\* confirmGoogleAuth: eight recovery codes are generated and stored, the
\* factor is enabled, the codes are returned
confirmGoogleAuth(w) ==
  /\ req[w].pc = "confirmGoogleAuth"
  /\ \E codes \in generateRecoveryCodes :
       LET u == req[w].user IN
       /\ profiles' = [profiles EXCEPT ![WhereId(u)] = ConfirmGoogle(@, codes, now)]
       /\ hist' = [hist EXCEPT ![u] = [@ EXCEPT !.recUsed = {},
                                                !.recTwice = FALSE]]
       /\ req' = [req EXCEPT ![w] =
                   Respond([@ EXCEPT !.codes = codes, !.enabled = TRUE,
                                     !.type = "google"],
                           "GoogleEnabled", NULL)]
  /\ UNCHANGED <<now, other>>

\* POST /api/2fa/enable-email: the status check
enableEmailAuth(w, u) ==
  /\ Begin(w)
  /\ LET r == NewReq("enableEmailAuth", u, NULL, NULL) IN
     req' = [req EXCEPT ![w] =
              IF StatusEnabled(profiles[u])
              THEN Respond(r, "AlreadyEnabled", NULL)
              ELSE [r EXCEPT !.pc = "enableEmail2FA"]]
  /\ UNCHANGED <<profiles, now, hist, other>>

\* enableEmail2FA: the update
enableEmail2FA(w) ==
  /\ req[w].pc = "enableEmail2FA"
  /\ profiles' = [profiles EXCEPT ![WhereId(req[w].user)] = EnableEmail(@, now)]
  /\ req' = [req EXCEPT ![w] =
              Respond([@ EXCEPT !.enabled = TRUE, !.type = "email"],
                      "EmailEnabled", NULL)]
  /\ UNCHANGED <<now, hist, other>>

\* POST /api/2fa/disable: the password is verified by the identity provider,
\* then disable2FA makes its one update
disable2FA(w, u) ==
  /\ Begin(w)
  /\ profiles' = [profiles EXCEPT ![WhereId(u)] = Disable(@)]
  /\ hist' = [hist EXCEPT ![u] = [@ EXCEPT
                 !.staleTok = @ \/ profiles[u].two_factor_login_token # NULL,
                 !.staleCode = @ \/ profiles[u].two_factor_email_code # NULL,
                 !.codeLast = NULL,
                 !.recUsed = {},
                 !.recTwice = FALSE]]
  /\ req' = [req EXCEPT ![w] =
              Respond(NewReq("disable2FA", u, NULL, NULL), "Disabled", NULL)]
  /\ UNCHANGED <<now, other>>

\* GET /api/2fa/status
get2FAStatus(w, u) ==
  /\ Begin(w)
  /\ req' = [req EXCEPT ![w] =
              Respond([NewReq("get2FAStatus", u, NULL, NULL) EXCEPT
                         !.enabled = StatusEnabled(profiles[u]),
                         !.type = StatusMethod(profiles[u])],
                      "Status", NULL)]
  /\ UNCHANGED <<profiles, now, hist, other>>

\* POST /api/2fa/send-code: the status check
sendEmail2FACode(w, u) ==
  /\ Begin(w)
  /\ LET r == NewReq("sendEmail2FACode", u, NULL, NULL) IN
     req' = [req EXCEPT ![w] =
              IF ~StatusEnabled(profiles[u]) \/ StatusMethod(profiles[u]) # "email"
              THEN Respond(r, "EmailNotEnabled", NULL)
              ELSE [r EXCEPT !.pc = "generateEmail2FACode"]]
  /\ UNCHANGED <<profiles, now, hist, other>>

-----------------------------------------------------------------------------
(* Time *)

Tick ==
  /\ now + TickMinutes <= EndTime
  /\ now' = now + TickMinutes
  /\ UNCHANGED <<profiles, req, hist, other>>

-----------------------------------------------------------------------------
(* The codes a client submits with a login: an e-mail code, or the TOTP code
   its authenticator shows now for some secret *)
LoginCodes == EmailCodes \cup {Totp(s, Counter(now)) : s \in Secrets}

Next ==
  \/ \E w \in DOMAIN req, u \in DOMAIN profiles : login(w, u)
  \/ \E w \in DOMAIN req : create2FALoginToken(w)
  \/ \E w \in DOMAIN req : generateEmail2FACode(w)
  \/ \E w \in DOMAIN req, u \in DOMAIN profiles, token \in Tokens, code \in LoginCodes :
       verify2FALoginToken(w, "verify2FALogin", u, token, code)
  \/ \E w \in DOMAIN req, u \in DOMAIN profiles, token \in Tokens, code \in RecoveryInputs :
       verify2FALoginToken(w, "verifyRecoveryCode", u, token, code)
  \/ \E w \in DOMAIN req : clearLoginToken(w)
  \/ \E w \in DOMAIN req : readFactor(w)
  \/ \E w \in DOMAIN req : verifyEmail2FACode(w)
  \/ \E w \in DOMAIN req, u \in DOMAIN profiles, code \in EmailCodes :
       verifyEmailAuth(w, u, code)
  \/ \E w \in DOMAIN req : clearEmailCode(w)
  \/ \E w \in DOMAIN req : readRecoveryCodes(w)
  \/ \E w \in DOMAIN req : writeRecoveryCodes(w)
  \/ \E w \in DOMAIN req, u \in DOMAIN profiles : enableGoogleAuth(w, u)
  \/ \E w \in DOMAIN req : generateGoogleAuthSecret(w)
  \/ \E w \in DOMAIN req, u \in DOMAIN profiles, code \in LoginCodes :
       verifyGoogleAuth(w, u, code)
  \/ \E w \in DOMAIN req : confirmGoogleAuth(w)
  \/ \E w \in DOMAIN req, u \in DOMAIN profiles : enableEmailAuth(w, u)
  \/ \E w \in DOMAIN req : enableEmail2FA(w)
  \/ \E w \in DOMAIN req, u \in DOMAIN profiles : disable2FA(w, u)
  \/ \E w \in DOMAIN req, u \in DOMAIN profiles : get2FAStatus(w, u)
  \/ \E w \in DOMAIN req, u \in DOMAIN profiles : sendEmail2FACode(w, u)
  \/ Tick

\* requests are served one after the other
Spec == Init /\ [][Next]_vars

\* the login requests: begin, complete with a code, complete with a
\* recovery code, resend and verify an e-mail code
NextConc ==
  \/ \E w \in DOMAIN req, u \in DOMAIN profiles : login(w, u)
  \/ \E w \in DOMAIN req : create2FALoginToken(w)
  \/ \E w \in DOMAIN req : generateEmail2FACode(w)
  \/ \E w \in DOMAIN req, u \in DOMAIN profiles, token \in Tokens, code \in LoginCodes :
       verify2FALoginToken(w, "verify2FALogin", u, token, code)
  \/ \E w \in DOMAIN req, u \in DOMAIN profiles, token \in Tokens, code \in RecoveryInputs :
       verify2FALoginToken(w, "verifyRecoveryCode", u, token, code)
  \/ \E w \in DOMAIN req : clearLoginToken(w)
  \/ \E w \in DOMAIN req : readFactor(w)
  \/ \E w \in DOMAIN req : verifyEmail2FACode(w)
  \/ \E w \in DOMAIN req, u \in DOMAIN profiles, code \in EmailCodes :
       verifyEmailAuth(w, u, code)
  \/ \E w \in DOMAIN req : clearEmailCode(w)
  \/ \E w \in DOMAIN req : readRecoveryCodes(w)
  \/ \E w \in DOMAIN req : writeRecoveryCodes(w)
  \/ \E w \in DOMAIN req, u \in DOMAIN profiles : sendEmail2FACode(w, u)

\* two login requests of an enrolled identity are served concurrently
SpecConc == InitConc /\ [][NextConc]_vars

-----------------------------------------------------------------------------
(* The login of an e-mail identity, minute by minute *)

InitExpiry ==
  /\ profiles = [u \in {1} |-> EnableEmail(NewProfile, StartTime)]
  /\ req = [w \in {1} |-> IdleReq]
  /\ now = StartTime
  /\ hist = [u \in {1} |-> NewHist]
  /\ OtherInit

Minute ==
  /\ now + 1 <= StartTime + MaxMinutes
  /\ now' = now + 1
  /\ UNCHANGED <<profiles, req, hist, other>>

NextExpiry ==
  \/ \E w \in DOMAIN req, u \in DOMAIN profiles : login(w, u)
  \/ \E w \in DOMAIN req : create2FALoginToken(w)
  \/ \E w \in DOMAIN req : generateEmail2FACode(w)
  \/ \E w \in DOMAIN req, u \in DOMAIN profiles, token \in Tokens, code \in EmailCodes :
       verify2FALoginToken(w, "verify2FALogin", u, token, code)
  \/ \E w \in DOMAIN req : clearLoginToken(w)
  \/ \E w \in DOMAIN req : readFactor(w)
  \/ \E w \in DOMAIN req : verifyEmail2FACode(w)
  \/ \E w \in DOMAIN req : clearEmailCode(w)
  \/ Minute

SpecExpiry == InitExpiry /\ [][NextExpiry]_vars

-----------------------------------------------------------------------------
(* Enrollment requests of one identity, served concurrently *)

InitEnroll ==
  /\ profiles = [u \in {1} |-> NewProfile]
  /\ req = [w \in {1, 2} |-> IdleReq]
  /\ now = StartTime
  /\ hist = [u \in {1} |-> NewHist]
  /\ OtherInit

\* the codes a client submits to verify-google: what its authenticator
\* shows for a secret
ConfirmCodes == {Totp(s, Counter(now)) : s \in Secrets}

NextEnroll ==
  \/ \E w \in DOMAIN req, u \in DOMAIN profiles : enableGoogleAuth(w, u)
  \/ \E w \in DOMAIN req : generateGoogleAuthSecret(w)
  \/ \E w \in DOMAIN req, u \in DOMAIN profiles, code \in ConfirmCodes :
       verifyGoogleAuth(w, u, code)
  \/ \E w \in DOMAIN req : confirmGoogleAuth(w)
  \/ \E w \in DOMAIN req, u \in DOMAIN profiles : enableEmailAuth(w, u)
  \/ \E w \in DOMAIN req : enableEmail2FA(w)
  \/ \E w \in DOMAIN req, u \in DOMAIN profiles : disable2FA(w, u)
  \/ \E w \in DOMAIN req, u \in DOMAIN profiles : get2FAStatus(w, u)

SpecEnroll == InitEnroll /\ [][NextEnroll]_vars

-----------------------------------------------------------------------------
(* The authenticate middleware and the suspension of an account *)

\* what the middleware does with the profile it holds
Admit(r, profile) ==
  IF profile.is_suspended THEN Respond(r, "Suspended", NULL)
  ELSE IF profile.deleted_at # NULL THEN Respond(r, "Deleted", NULL)
  ELSE Respond(r, "Next", NULL)

\* a suspendUser of identity u has answered with its success
SuspensionCompleted(u) ==
  \E v \in DOMAIN req :
     /\ req[v].op = "suspendUser"
     /\ req[v].user = u
     /\ req[v].pc = "done"
     /\ req[v].result = "UserSuspended"

\* authenticate: the bearer token is the valid token of identity u; the
\* cache is asked for its profile
authenticate(w, u) ==
  /\ Begin(w)
  /\ LET got == getCachedProfile(profileCache, u, now)
         r == [NewReq("authenticate", u, NULL, NULL) EXCEPT
                 !.h_cache = IF CacheIndex(profileCache, u) = 0 THEN "absent"
                             ELSE IF got.hit THEN "fresh" ELSE "stale",
                 !.h_suspended = SuspensionCompleted(u)]
     IN  /\ profileCache' = got.cache
         /\ req' = [req EXCEPT ![w] =
                     IF got.hit THEN Admit(r, got.profile[1])
                     ELSE [r EXCEPT !.pc = "fetchProfile"]]
  /\ UNCHANGED <<profiles, now, hist, cars, password_reset_tokens,
                 passwords, totp>>

\* authenticate after a miss: the row is read from the profiles table
fetchProfile(w) ==
  /\ req[w].pc = "fetchProfile"
  /\ req' = [req EXCEPT ![w] = [@ EXCEPT !.pc = "setCachedProfile",
                                         !.profile = <<profiles[req[w].user]>>]]
  /\ UNCHANGED <<profiles, now, hist, other>>

\* authenticate after the read: the row is cached and the request goes on
cacheProfile(w) ==
  /\ req[w].pc = "setCachedProfile"
  /\ LET profile == req[w].profile[1] IN
     /\ profileCache' = setCachedProfile(profileCache, req[w].user, profile, now)
     /\ req' = [req EXCEPT ![w] =
                 Admit([@ EXCEPT !.profile = <<>>,
                                 !.h_evict = Len(profileCache) > CacheCeiling],
                       profile)]
  /\ UNCHANGED <<profiles, now, hist, cars, password_reset_tokens,
                 passwords, totp>>

\* PUT /api/admin/users/:userId/suspend by an administrator (another
\* identity): the row is read
suspendUser(w, u) ==
  /\ Begin(w)
  /\ LET r == NewReq("suspendUser", u, NULL, NULL) IN
     req' = [req EXCEPT ![w] =
              IF profiles[u].deleted_at # NULL
              THEN Respond(r, "UserNotFound", NULL)
              ELSE IF profiles[u].is_suspended
              THEN Respond(r, "AlreadySuspended", NULL)
              ELSE [r EXCEPT !.pc = "suspendUpdate"]]
  /\ UNCHANGED <<profiles, now, hist, other>>

\* suspendUser: the update
suspendUpdate(w) ==
  /\ req[w].pc = "suspendUpdate"
  /\ profiles' = [profiles EXCEPT ![WhereId(req[w].user)] = [@ EXCEPT !.is_suspended = TRUE]]
  /\ req' = [req EXCEPT ![w] = [@ EXCEPT !.pc = "insertNotification"]]
  /\ UNCHANGED <<now, hist, other>>

\* suspendUser: the notification is inserted and the handler answers
insertNotification(w) ==
  /\ req[w].pc = "insertNotification"
  /\ req' = [req EXCEPT ![w] = Respond(@, "UserSuspended", NULL)]
  /\ UNCHANGED <<profiles, now, hist, other>>

-----------------------------------------------------------------------------
(* The cache under the requests of many identities *)

\* one identity more than the cache can hold
CacheIds == 1..(CacheCeiling + 2)

InitCache ==
  /\ profiles = [u \in CacheIds |-> NewProfile]
  /\ req = [w \in {1} |-> IdleReq]
  /\ now = StartTime
  /\ hist = [u \in CacheIds |-> NewHist]
  /\ OtherInit

\* identities are alike: of those not cached the first one makes a request
NextIdentity(u) ==
  \/ CacheIndex(profileCache, u) # 0
  \/ \A v \in CacheIds : v < u => CacheIndex(profileCache, v) # 0

NextCache ==
  \/ \E w \in DOMAIN req, u \in DOMAIN profiles :
       NextIdentity(u) /\ authenticate(w, u)
  \/ \E w \in DOMAIN req : fetchProfile(w)
  \/ \E w \in DOMAIN req : cacheProfile(w)
  \/ Tick

SpecCache == InitCache /\ [][NextCache]_vars

-----------------------------------------------------------------------------
(* An identity that is suspended while it makes requests *)

InitSuspend ==
  /\ profiles = [u \in {1} |-> NewProfile]
  /\ req = [w \in {1, 2} |-> IdleReq]
  /\ now = StartTime
  /\ hist = [u \in {1} |-> NewHist]
  /\ OtherInit

NextSuspend ==
  \/ \E w \in DOMAIN req, u \in DOMAIN profiles : authenticate(w, u)
  \/ \E w \in DOMAIN req : fetchProfile(w)
  \/ \E w \in DOMAIN req : cacheProfile(w)
  \/ \E w \in DOMAIN req, u \in DOMAIN profiles : suspendUser(w, u)
  \/ \E w \in DOMAIN req : suspendUpdate(w)
  \/ \E w \in DOMAIN req : insertNotification(w)
  \/ Tick

SpecSuspend == InitSuspend /\ [][NextSuspend]_vars

-----------------------------------------------------------------------------
(* Two identities, each with its own requests *)

\* the second identity has enrolled a factor and begun a login: its row
\* holds a challenge and, with the e-mail method, a code
PendingProfiles ==
  {StoreEmailCode(StoreLoginToken(EnableEmail(NewProfile, StartTime),
                                  1, StartTime), 1, StartTime)} \cup
  {StoreLoginToken(ConfirmGoogle(StoreSecret(NewProfile, 1), codes, StartTime),
                   1, StartTime) : codes \in generateRecoveryCodes}

InitTwo ==
  /\ profiles \in {[u \in {1, 2} |-> IF u = 1 THEN NewProfile ELSE row] :
                     row \in PendingProfiles}
  /\ req = [w \in {1} |-> IdleReq]
  /\ now = StartTime
  /\ hist = [u \in {1, 2} |->
               IF u = 1 THEN NewHist
               ELSE [NewHist EXCEPT
                       !.tokLast = profiles[2].two_factor_login_token,
                       !.codeLast = profiles[2].two_factor_email_code]]
  /\ OtherInit

\* the first identity enrolls, logs in and disables; both submit tokens
\* and codes
Actors == {1}

\* the requests of the step-up handlers; the clock stands still
NextTwo ==
  \/ \E w \in DOMAIN req, u \in Actors : login(w, u)
  \/ \E w \in DOMAIN req : create2FALoginToken(w)
  \/ \E w \in DOMAIN req : generateEmail2FACode(w)
  \/ \E w \in DOMAIN req, u \in DOMAIN profiles, token \in Tokens, code \in LoginCodes :
       verify2FALoginToken(w, "verify2FALogin", u, token, code)
  \/ \E w \in DOMAIN req, u \in DOMAIN profiles, token \in Tokens, code \in RecoveryInputs :
       verify2FALoginToken(w, "verifyRecoveryCode", u, token, code)
  \/ \E w \in DOMAIN req : clearLoginToken(w)
  \/ \E w \in DOMAIN req : readFactor(w)
  \/ \E w \in DOMAIN req : verifyEmail2FACode(w)
  \/ \E w \in DOMAIN req, u \in DOMAIN profiles, code \in EmailCodes :
       verifyEmailAuth(w, u, code)
  \/ \E w \in DOMAIN req : clearEmailCode(w)
  \/ \E w \in DOMAIN req : readRecoveryCodes(w)
  \/ \E w \in DOMAIN req : writeRecoveryCodes(w)
  \/ \E w \in DOMAIN req, u \in Actors : enableGoogleAuth(w, u)
  \/ \E w \in DOMAIN req : generateGoogleAuthSecret(w)
  \/ \E w \in DOMAIN req, u \in Actors, code \in LoginCodes :
       verifyGoogleAuth(w, u, code)
  \/ \E w \in DOMAIN req : confirmGoogleAuth(w)
  \/ \E w \in DOMAIN req, u \in Actors : enableEmailAuth(w, u)
  \/ \E w \in DOMAIN req : enableEmail2FA(w)
  \/ \E w \in DOMAIN req, u \in Actors : disable2FA(w, u)
  \/ \E w \in DOMAIN req, u \in Actors : get2FAStatus(w, u)
  \/ \E w \in DOMAIN req, u \in Actors : sendEmail2FACode(w, u)

SpecTwo == InitTwo /\ [][NextTwo]_vars

-----------------------------------------------------------------------------
(* A one-time code and the server's clock, in seconds *)

MaxSeconds == MaxSkewTicks * SkewSeconds

\* the authenticator shows the code of a secret for one time step; the
\* server's clock starts anywhere
InitTotp ==
  /\ profiles = [u \in {1} |-> NewProfile]
  /\ req = [w \in {1} |-> IdleReq]
  /\ now = StartTime
  /\ hist = [u \in {1} |-> NewHist]
  /\ profileCache = <<>>
  /\ cars = <<>>
  /\ password_reset_tokens = <<>>
  /\ passwords = <<>>
  /\ totp \in [secret : Secrets,
               step : 0..CounterAt(MaxSeconds),
               seconds : {0},
               verified : {"none"},
               at : {0}]

\* the authenticator moves to the code of another time step
showCode(k) ==
  /\ totp' = [totp EXCEPT !.step = k, !.verified = "none"]
  /\ UNCHANGED <<profiles, req, now, hist, profileCache, cars,
                 password_reset_tokens, passwords>>

\* the server's clock advances
Seconds ==
  /\ totp.seconds + SkewSeconds <= MaxSeconds
  /\ totp' = [totp EXCEPT !.seconds = @ + SkewSeconds]
  /\ UNCHANGED <<profiles, req, now, hist, profileCache, cars,
                 password_reset_tokens, passwords>>

\* verifyGoogleAuthCode(secret, code) with the code the authenticator shows
verifyCode ==
  /\ totp' = [totp EXCEPT
                !.verified = IF VerifyDelta(totp.secret,
                                            Totp(totp.secret, totp.step),
                                            CounterAt(totp.seconds))
                             THEN "accepted" ELSE "rejected",
                !.at = totp.seconds]
  /\ UNCHANGED <<profiles, req, now, hist, profileCache, cars,
                 password_reset_tokens, passwords>>

NextTotp ==
  \/ \E k \in 0..CounterAt(MaxSeconds) : showCode(k)
  \/ Seconds
  \/ verifyCode

SpecTotp == InitTotp /\ [][NextTotp]_vars

-----------------------------------------------------------------------------
(* The cars of the users and their soft delete *)

Slugs == 1..NumSlugs

\* a slug no car has been given
NoCar == [user_id |-> NULL, deleted_at |-> NULL]

\* a filter that forgets deleted_at
CarVisible_IgnoreDeleted(car, userId) ==
  car.user_id = userId

\* .eq('user_id', userId).is('deleted_at', null) on the row of a slug
CarVisible(car, userId) ==
  /\ car.user_id = userId
  /\ car.deleted_at = NULL

\* POST /api/reg-car: createCar inserts a row under a fresh random slug
addCar(w, u) ==
  /\ Begin(w)
  /\ \E slug \in Slugs :
       /\ cars[slug] = NoCar
       /\ cars' = [cars EXCEPT ![slug] = [user_id |-> u, deleted_at |-> NULL]]
       /\ req' = [req EXCEPT ![w] =
                   Respond([NewReq("addCar", u, NULL, NULL) EXCEPT !.slug = slug],
                           "CarRegistered", NULL)]
  /\ UNCHANGED <<profiles, now, hist, profileCache, password_reset_tokens,
                 passwords, totp>>

\* GET /api/get-cars: getCarsPaginated lists the rows the user may see
getCars(w, u) ==
  /\ Begin(w)
  /\ LET listed == {s \in Slugs : CarVisible(cars[s], u)} IN
     req' = [req EXCEPT ![w] =
              Respond([NewReq("getCars", u, NULL, NULL) EXCEPT
                         !.listed = listed,
                         !.h_gone = \E s \in listed : cars[s].deleted_at # NULL],
                      "CarsRetrieved", NULL)]
  /\ UNCHANGED <<profiles, now, hist, other>>

\* GET /api/cars/:slug
getCarBySlug(w, u, slug) ==
  /\ Begin(w)
  /\ LET r == [NewReq("getCarBySlug", u, NULL, NULL) EXCEPT
                 !.slug = slug,
                 !.h_gone = cars[slug].deleted_at # NULL] IN
     req' = [req EXCEPT ![w] =
              IF CarVisible(cars[slug], u)
              THEN Respond(r, "CarRetrieved", NULL)
              ELSE Respond(r, "CarNotFound", NULL)]
  /\ UNCHANGED <<profiles, now, hist, other>>

\* PUT and DELETE /api/cars/:slug begin with verifyCarExists; op is
\* "updateCar" or "deleteCar"
verifyCarExists(w, op, u, slug) ==
  /\ Begin(w)
  /\ LET r == [NewReq(op, u, NULL, NULL) EXCEPT
                 !.slug = slug,
                 !.h_gone = cars[slug].deleted_at # NULL] IN
     req' = [req EXCEPT ![w] =
              IF CarVisible(cars[slug], u)
              THEN [r EXCEPT !.pc = IF op = "updateCar" THEN "updateCarBySlug"
                                    ELSE "deleteCarBySlug"]
              ELSE Respond(r, "CarNotFound", NULL)]
  /\ UNCHANGED <<profiles, now, hist, other>>

\* updateCarBySlug: the update returns its row with .single(); without a
\* row the error is none of those the service knows and it answers with a
\* server error
updateCarBySlug(w) ==
  /\ req[w].pc = "updateCarBySlug"
  /\ req' = [req EXCEPT ![w] =
              IF CarVisible(cars[req[w].slug], req[w].user)
              THEN Respond(@, "CarUpdated", NULL)
              ELSE Respond(@, "ServerError", NULL)]
  /\ UNCHANGED <<profiles, now, hist, other>>

\* deleteCarBySlug: deleted_at is set on the row if it is not deleted yet;
\* no row updated is a 404
deleteCarBySlug(w) ==
  /\ req[w].pc = "deleteCarBySlug"
  /\ LET slug == req[w].slug IN
     IF CarVisible(cars[slug], req[w].user)
     THEN /\ cars' = [cars EXCEPT ![slug].deleted_at = now]
          /\ req' = [req EXCEPT ![w] = Respond(@, "CarDeleted", NULL)]
     ELSE /\ req' = [req EXCEPT ![w] = Respond(@, "CarNotFound", NULL)]
          /\ UNCHANGED cars
  /\ UNCHANGED <<profiles, now, hist, profileCache, password_reset_tokens,
                 passwords, totp>>

\* two users, two requests at a time, no car yet
InitCars ==
  /\ profiles = [u \in {1, 2} |-> NewProfile]
  /\ req = [w \in {1, 2} |-> IdleReq]
  /\ now = StartTime
  /\ hist = [u \in {1, 2} |-> NewHist]
  /\ profileCache = <<>>
  /\ cars = [s \in Slugs |-> NoCar]
  /\ password_reset_tokens = <<>>
  /\ passwords = <<>>
  /\ totp = <<>>

NextCars ==
  \/ \E w \in DOMAIN req, u \in DOMAIN profiles : addCar(w, u)
  \/ \E w \in DOMAIN req, u \in DOMAIN profiles : getCars(w, u)
  \/ \E w \in DOMAIN req, u \in DOMAIN profiles, slug \in Slugs :
       getCarBySlug(w, u, slug)
  \/ \E w \in DOMAIN req, u \in DOMAIN profiles, slug \in Slugs :
       verifyCarExists(w, "updateCar", u, slug)
  \/ \E w \in DOMAIN req, u \in DOMAIN profiles, slug \in Slugs :
       verifyCarExists(w, "deleteCar", u, slug)
  \/ \E w \in DOMAIN req : updateCarBySlug(w)
  \/ \E w \in DOMAIN req : deleteCarBySlug(w)

SpecCars == InitCars /\ [][NextCars]_vars

-----------------------------------------------------------------------------
(* The password reset by one-time code.  The request's user is the e-mail
   address, its code the OTP or the new password, its temp_token the reset
   token *)

Otps == 1..NumOtps
ResetTokens == 1..NumResetTokens
Passwords == 1..NumPasswords

\* the addresses a client names: that of the account, and one without an
\* account
ResetEmails == {1, 2}
Registered == {1}

\* no row for an address.  h_fresh is history: the token was stored after
\* the OTP that is stored
NoResetRow ==
  [present |-> FALSE, otp |-> NULL, token |-> NULL, expires_at |-> NULL,
   h_fresh |-> FALSE]

\* upsert({email, otp, expires_at, created_at}, {onConflict: 'email'}): a
\* new row has no token, an existing row keeps the column the upsert does
\* not name
UpsertOtp(row, otp, t) ==
  [present |-> TRUE, otp |-> otp,
   token |-> IF row.present THEN row.token ELSE NULL,
   expires_at |-> t + OtpTTL,
   h_fresh |-> FALSE]

\* verifyPasswordResetOTP: the checks
OtpCheck(row, otp, t) ==
  IF ~row.present THEN "NoResetRequest"
  ELSE IF row.expires_at < t THEN "OtpExpired"
  ELSE IF row.otp # otp THEN "InvalidOtp"
  ELSE "ok"

\* resetPassword: the select by e-mail and token, and the expiry with its
\* five more minutes
ResetCheck(row, token, t) ==
  IF ~row.present \/ row.token # token THEN "InvalidResetToken"
  ELSE IF row.expires_at + ResetGraceMinutes < t THEN "ResetTokenExpired"
  ELSE "ok"

\* POST /api/send-otp: the account is looked up; an unknown address gets
\* the same answer
sendPasswordResetOTP(w, email) ==
  /\ Begin(w)
  /\ LET r == NewReq("sendPasswordResetOTP", email, NULL, NULL) IN
     req' = [req EXCEPT ![w] =
              IF email \in Registered THEN [r EXCEPT !.pc = "upsertOtp"]
              ELSE Respond(r, "OtpSent", NULL)]
  /\ UNCHANGED <<profiles, now, hist, other>>

\* sendPasswordResetOTP: a random OTP is stored with its expiry and written
\* to the console (`Password Reset OTP for ${email}: ${otp}`)
upsertOtp(w) ==
  /\ req[w].pc = "upsertOtp"
  /\ \E otp \in Otps :
       password_reset_tokens' =
         [password_reset_tokens EXCEPT ![req[w].user] = UpsertOtp(@, otp, now)]
  /\ req' = [req EXCEPT ![w] = Respond([@ EXCEPT !.h_log = "code"], "OtpSent", NULL)]
  /\ UNCHANGED <<profiles, now, hist, profileCache, cars, passwords, totp>>

\* POST /api/verify-otp: the row is read and the OTP checked
verifyPasswordResetOTP(w, email, otp) ==
  /\ Begin(w)
  /\ LET r == NewReq("verifyPasswordResetOTP", email, NULL, otp)
         outcome == OtpCheck(password_reset_tokens[email], otp, now)
     IN  req' = [req EXCEPT ![w] =
                  IF outcome = "ok" THEN [r EXCEPT !.pc = "storeResetToken"]
                  ELSE Respond(r, outcome, NULL)]
  /\ UNCHANGED <<profiles, now, hist, other>>

\* verifyPasswordResetOTP: a random reset token is stored and returned
storeResetToken(w) ==
  /\ req[w].pc = "storeResetToken"
  /\ \E token \in ResetTokens :
       /\ password_reset_tokens' =
            [password_reset_tokens EXCEPT ![req[w].user] =
               IF @.present THEN [@ EXCEPT !.token = token, !.h_fresh = TRUE]
               ELSE @]
       /\ req' = [req EXCEPT ![w] = Respond(@, "OtpVerified", token)]
  /\ UNCHANGED <<profiles, now, hist, profileCache, cars, passwords, totp>>

\* POST /api/reset-password: the row is selected by e-mail and token and
\* its expiry checked
resetPassword(w, email, token, password) ==
  /\ Begin(w)
  /\ LET row == password_reset_tokens[email]
         outcome == ResetCheck(row, token, now)
         r == [NewReq("resetPassword", email, token, password) EXCEPT
                 !.h_oldToken = row.present /\ row.token = token /\ ~row.h_fresh]
     IN  req' = [req EXCEPT ![w] =
                  IF outcome # "ok" THEN Respond(r, outcome, NULL)
                  ELSE IF email \notin Registered THEN Respond(r, "UserNotFound", NULL)
                  ELSE [r EXCEPT !.pc = "updateUserById"]]
  /\ UNCHANGED <<profiles, now, hist, other>>

\* resetPassword: the identity provider sets the password
updateUserById(w) ==
  /\ req[w].pc = "updateUserById"
  /\ passwords' = [passwords EXCEPT ![req[w].user] = req[w].code]
  /\ req' = [req EXCEPT ![w] = [@ EXCEPT !.pc = "deleteResetToken"]]
  /\ UNCHANGED <<profiles, now, hist, profileCache, cars,
                 password_reset_tokens, totp>>

\* resetPassword: the row is deleted and the handler answers
deleteResetToken(w) ==
  /\ req[w].pc = "deleteResetToken"
  /\ password_reset_tokens' =
       [password_reset_tokens EXCEPT ![req[w].user] = NoResetRow]
  /\ req' = [req EXCEPT ![w] = Respond(@, "PasswordReset", NULL)]
  /\ UNCHANGED <<profiles, now, hist, profileCache, cars, passwords, totp>>

\* one account, no reset requested
InitReset ==
  /\ profiles = [u \in {1} |-> NewProfile]
  /\ req = [w \in {1} |-> IdleReq]
  /\ now = StartTime
  /\ hist = [u \in {1} |-> NewHist]
  /\ profileCache = <<>>
  /\ cars = <<>>
  /\ password_reset_tokens = [e \in ResetEmails |-> NoResetRow]
  /\ passwords = [e \in Registered |-> 1]
  /\ totp = <<>>

NextReset ==
  \/ \E w \in DOMAIN req, email \in ResetEmails : sendPasswordResetOTP(w, email)
  \/ \E w \in DOMAIN req : upsertOtp(w)
  \/ \E w \in DOMAIN req, email \in ResetEmails, otp \in Otps :
       verifyPasswordResetOTP(w, email, otp)
  \/ \E w \in DOMAIN req : storeResetToken(w)
  \/ \E w \in DOMAIN req, email \in ResetEmails, token \in ResetTokens,
        password \in Passwords : resetPassword(w, email, token, password)
  \/ \E w \in DOMAIN req : updateUserById(w)
  \/ \E w \in DOMAIN req : deleteResetToken(w)
  \/ Tick

SpecReset == InitReset /\ [][NextReset]_vars

-----------------------------------------------------------------------------
(* Outcomes of a request *)

TokenFailures == {"NoLoginPending", "LoginSessionExpired", "InvalidLoginToken"}

\* the request r got past verify2FALoginToken's checks
TokenPassed(r) ==
  /\ r.op \in {"verify2FALogin", "verifyRecoveryCode"}
  /\ r.pc # "idle"
  /\ ~(r.pc = "done" /\ r.result \in TokenFailures)

\* the request r got past verifyEmail2FACode's checks
EmailPassed(r) ==
  \/ r.pc = "clearEmailCode"
  \/ r.pc = "done" /\ r.result = "EmailVerified"
  \/ r.pc = "done" /\ r.result = "Authenticated" /\ r.type = "email"

\* the request r completed a login
LoggedIn(r) ==
  /\ r.pc = "done"
  /\ r.result \in {"Authenticated", "RecoveryVerified"}

-----------------------------------------------------------------------------
(* C1 *)

\* C1: a login is completed (Authenticated) only by verify2FALogin, and only
\* if, when the handler checked, a challenge was stored, its token was the
\* submitted one, it had not expired, and the code was accepted by the
\* verifier of the identity's method; the recovery path completes only if the
\* same token check passed and the code was in the stored recovery set; the
\* password login hands out a session only if no factor was enabled.
C1_AuthenticatedOnlyIfVerified ==
  \A w \in DOMAIN req :
    LET r == req[w] IN
    /\ (r.pc = "done" /\ r.result = "Authenticated")
         => (r.op = "verify2FALogin" /\ r.h_token /\ r.h_code)
    /\ (r.pc = "done" /\ r.result = "RecoveryVerified")
         => (r.op = "verifyRecoveryCode" /\ r.h_token /\ r.h_code)
    /\ (r.pc = "done" /\ r.result = "LoginSuccessful")
         => (r.op = "login" /\ ~r.enabled)

C1_Witness ==
  \E w \in DOMAIN req :
    /\ req[w].pc = "done"
    /\ req[w].op = "verify2FALogin"
    /\ req[w].result = "Authenticated"
    /\ req[w].type = "google"

-----------------------------------------------------------------------------
(* C2 *)

\* C2: of the verify2FALoginToken calls that present the token of one
\* issued challenge, at most one returns true, however the calls interleave.
C2_ChallengeConsumedOnce ==
  \A u \in DOMAIN hist : hist[u].tokUses <= 1

-----------------------------------------------------------------------------
(* C3 *)

\* C3: once a login has been completed with a challenge, a further
\* verify-login or verify-recovery request made before the next login
\* attempt issues a challenge fails with 'No login pending'; and a
\* verify-login whose token and e-mail code both pass is Authenticated.
C3_RepeatedLoginFails ==
  \A w \in DOMAIN req :
    LET r == req[w] IN
    /\ r.h_after => (r.pc = "done" /\ r.result = "NoLoginPending")
    /\ (r.pc = "done" /\ r.op = "verify2FALogin" /\ r.type = "email"
          /\ r.h_token /\ r.h_code)
         => r.result = "Authenticated"

C3_Witness ==
  \E w \in DOMAIN req :
    /\ req[w].h_after
    /\ req[w].op = "verify2FALogin"
    /\ req[w].result = "NoLoginPending"
    /\ profiles[req[w].user].two_factor_type = "email"
    /\ profiles[req[w].user].two_factor_enabled

-----------------------------------------------------------------------------
(* C4 *)

\* C4: of the verifyEmail2FACode calls that submit one stored e-mail code,
\* at most one returns true, however the calls interleave.
C4_EmailCodeConsumedOnce ==
  \A u \in DOMAIN hist : hist[u].codeUses <= 1

-----------------------------------------------------------------------------
(* C5 *)

\* no request is between the read and the write of verifyRecoveryCode
RecoveryQuiet(u) ==
  \A w \in DOMAIN req :
    ~(req[w].user = u /\ req[w].pc \in {"readRecoveryCodes", "writeRecoveryCodes"})

\* C5: no recovery code is reported consumed by two calls, and once the
\* calls have completed no code reported consumed is still stored.
C5_RecoveryCodesSingleUse ==
  \A u \in DOMAIN profiles :
    /\ ~hist[u].recTwice
    /\ (RecoveryQuiet(u) /\ profiles[u].two_factor_recovery_codes # NoCodes)
         => \A c \in hist[u].recUsed : ~Includes(StoredCodes(profiles[u]), c)

-----------------------------------------------------------------------------
(* C6 *)

\* C6: a successful verifyRecoveryCode on a set of N codes leaves N-1 stored
\* codes, none of them the consumed one, and returns N-1; a code that was
\* consumed is refused when submitted again.
C6_ConsumeRemovesExactlyOne ==
  \A w \in DOMAIN req :
    LET r == req[w]
        row == profiles[r.user]
    IN  /\ (r.pc = "done" /\ r.result = "RecoveryVerified")
              => /\ row.two_factor_recovery_codes # NoCodes
                 /\ Len(StoredCodes(row)) = r.h_count - 1
                 /\ r.out = r.h_count - 1
                 /\ \A c \in hist[r.user].recUsed : ~Includes(StoredCodes(row), c)
        /\ r.h_reuse => (r.pc = "done" /\ r.result = "InvalidRecoveryCode")

-----------------------------------------------------------------------------
(* C7 *)

\* C7: an identity has one challenge and one e-mail code at a time, and a
\* new one replaces the old: a token passes verify2FALoginToken only if it
\* is the one written last, and the one written last passes until it
\* expires; a request that fails leaves the row as it was; likewise for
\* the e-mail code.
C7_State ==
  /\ \A u \in DOMAIN profiles :
       /\ Cardinality({t \in Tokens : TokenCheck(profiles[u], t, now) = "ok"}) <= 1
       /\ Cardinality({c \in EmailCodes : EmailCheck(profiles[u], c, now) = "ok"}) <= 1
  /\ \A w \in DOMAIN req :
       LET r == req[w] IN
       /\ TokenPassed(r) => r.h_lastTok
       /\ (r.op \in {"verify2FALogin", "verifyRecoveryCode"}
             /\ r.h_lastTok /\ ~r.h_late) => TokenPassed(r)
       /\ EmailPassed(r) => r.h_lastCode
       /\ (r.h_lastCode /\ ~r.h_late) => EmailPassed(r)

C7_Step ==
  \A w \in DOMAIN req :
    (req'[w] # req[w] /\ req'[w].pc = "done"
       /\ req'[w].result \in TokenFailures \cup
            {"Invalid2FACode", "No2FACodePending", "2FACodeExpired"})
      => profiles' = profiles

C7_OverwriteSemantics == []C7_State /\ [][C7_Step]_vars

\* the replaced token is refused and the token that replaced it stays
C7_Witness ==
  \E w \in DOMAIN req :
    /\ req[w].pc = "done"
    /\ hist[req[w].user].tokReplaced
    /\ req[w].result = "InvalidLoginToken"
    /\ profiles[req[w].user].two_factor_login_token = hist[req[w].user].tokLast
    /\ profiles[req[w].user].two_factor_login_token # NULL

-----------------------------------------------------------------------------
(* C8 *)

\* C8: a token check or an e-mail code check made after the stored
\* expiresAt fails, whatever value is submitted, so no login is completed
\* from an expired challenge or code; and expiresAt is never more than ten
\* minutes ahead.
C8_ExpiredNeverVerifies ==
  /\ \A w \in DOMAIN req :
       req[w].h_late =>
         /\ req[w].pc = "done"
         /\ req[w].result \in {"LoginSessionExpired", "Invalid2FACode", "2FACodeExpired"}
  /\ \A u \in DOMAIN profiles :
       /\ profiles[u].two_factor_login_expires_at <= now + 10
       /\ profiles[u].two_factor_email_expires_at <= now + 10

C8_Witness ==
  \E w \in DOMAIN req :
    /\ req[w].h_late
    /\ req[w].h_lastTok
    /\ req[w].result = "LoginSessionExpired"

-----------------------------------------------------------------------------
(* C9 *)

\* C9: when disable2FA has returned, the row holds no secret, no recovery
\* codes, no challenge, no e-mail code and no confirmation timestamp.
C9_DisableClearsAll ==
  \A w \in DOMAIN req :
    (req[w].pc = "done" /\ req[w].op = "disable2FA") =>
      LET row == profiles[req[w].user] IN
      /\ row.two_factor_secret = NULL
      /\ row.two_factor_recovery_codes = NoCodes
      /\ row.two_factor_login_token = NULL
      /\ row.two_factor_login_expires_at = NULL
      /\ row.two_factor_email_code = NULL
      /\ row.two_factor_email_expires_at = NULL
      /\ row.two_factor_confirmed_at = NULL

-----------------------------------------------------------------------------
(* C10 *)

\* C10: after disable2FA the status is {enabled: false, method: null}, and
\* no login is completed with a challenge or an e-mail code that was
\* outstanding when the factor was disabled.
C10_DisableRejectsOutstanding ==
  \A w \in DOMAIN req :
    LET r == req[w] IN
    /\ (r.pc = "done" /\ r.op = "disable2FA")
         => /\ ~StatusEnabled(profiles[r.user])
            /\ StatusMethod(profiles[r.user]) = "null"
    /\ LoggedIn(r) => ~r.h_stale

-----------------------------------------------------------------------------
(* C11 *)

\* C11: the login handler, entered after the primary credential is verified,
\* answers with the session exactly when the profile it read has no enabled
\* factor (a stored, unconfirmed TOTP secret does not count) and then stores
\* nothing; otherwise, unless the dispatch of the e-mail fails, it answers
\* with the token it has just stored as the identity's challenge and with
\* the identity's method, and for the e-mail method it has stored and
\* dispatched a code.
C11_State ==
  \A w \in DOMAIN req :
    LET r == req[w] IN
    (r.op = "login" /\ r.pc = "done") =>
      /\ (r.result = "LoginSuccessful") <=> ~r.enabled
      /\ r.enabled => r.result \in {"Requires2FA", "ServerError"}
      /\ (r.result = "ServerError") => r.h_mail = "failed"
      /\ (r.result = "Requires2FA") =>
            /\ r.out # NULL
            /\ (r.type = "email") <=> (r.h_mail = "sent")
            /\ (r.type # "email") => r.h_mail = "none"

C11_Step ==
  \A w \in DOMAIN req :
    (req'[w] # req[w] /\ req'[w].op = "login" /\ req'[w].pc = "done") =>
      LET r == req'[w]
          old == profiles[r.user]
          new == profiles'[r.user]
      IN  /\ (r.result = "LoginSuccessful") =>
                (profiles' = profiles /\ ~old.two_factor_enabled)
          /\ (r.result = "Requires2FA") =>
                /\ new.two_factor_enabled
                /\ new.two_factor_login_token = r.out
                /\ hist'[r.user].tokLast = r.out
                /\ r.type = new.two_factor_type
                /\ (r.type = "email") =>
                      /\ new.two_factor_email_code # NULL
                      /\ new.two_factor_email_code = hist'[r.user].codeLast
                      /\ new.two_factor_email_expires_at = now + EmailCodeTTL

-----------------------------------------------------------------------------
(* C20 *)

\* C20: when the dispatch of the e-mail fails, the handler that asked for
\* the code (login, or the resend endpoint) answers with a server error: it
\* reports no success and hands out no challenge token.
C20_DispatchFailureSurfaces ==
  \A w \in DOMAIN req :
    LET r == req[w] IN
    (r.h_mail = "failed") =>
      /\ r.pc = "done"
      /\ r.op \in {"login", "sendEmail2FACode"}
      /\ r.result = "ServerError"
      /\ r.result \notin {"Requires2FA", "CodeSent", "LoginSuccessful"}
      /\ r.out = NULL

\* login of an e-mail identity whose dispatch failed
C20_Witness ==
  \E w \in DOMAIN req :
    /\ req[w].h_mail = "failed"
    /\ req[w].op = "login"
    /\ req[w].result = "ServerError"
    /\ profiles[req[w].user].two_factor_email_code # NULL

-----------------------------------------------------------------------------
(* C12 *)

\* C12: a failed submission ends the attempt: once a verify-login or
\* verify-recovery request that passed the check of a challenge has been
\* answered with a failure, no login is completed with that challenge, and
\* no two submissions pass the token check of one challenge.
C12_FailedChallengeIsTerminal ==
  /\ \A w \in DOMAIN req : ~req[w].h_afterFail
  /\ \A u \in DOMAIN profiles :
       Cardinality({w \in DOMAIN req : req[w].user = u /\ req[w].h_cur}) <= 1

-----------------------------------------------------------------------------
(* C13 *)

\* C13: when a verify-login or verify-recovery request is answered with
\* success, the challenge it was admitted with is no longer stored and no
\* e-mail code is stored; and once the recovery requests of an identity have
\* completed, the code a successful one consumed is not in the stored set.
C13_State ==
  \A w \in DOMAIN req :
    LET r == req[w]
        row == profiles[r.user]
    IN  (r.pc = "done" /\ r.result = "RecoveryVerified"
           /\ r.h_used \in hist[r.user].recUsed
           /\ RecoveryQuiet(r.user)
           /\ row.two_factor_recovery_codes # NoCodes)
          => ~Includes(StoredCodes(row), r.h_used)

C13_Step ==
  \A w \in DOMAIN req :
    (req'[w] # req[w] /\ LoggedIn(req'[w])) =>
      LET r == req'[w]
          new == profiles'[r.user]
      IN  /\ r.h_cur => new.two_factor_login_token = NULL
          /\ new.two_factor_email_code = NULL

C13_SuccessInvalidatesAll == []C13_State /\ [][C13_Step]_vars

-----------------------------------------------------------------------------
(* C14 *)

\* the request w has made the token check
TokenChecked(w) ==
  /\ req[w].op \in {"verify2FALogin", "verifyRecoveryCode"}
  /\ req[w].h_stored # "none"

TokenFailedWith(w, results) ==
  req[w].pc = "done" /\ req[w].result \in results

\* the token is cleared by the step that follows a passed check
C14_Clears ==
  \A w \in DOMAIN req :
    (req[w].pc = "clearLoginToken" /\ req'[w].pc # "clearLoginToken") =>
      /\ profiles'[req[w].user].two_factor_login_token = NULL
      /\ profiles'[req[w].user].two_factor_login_expires_at = NULL

\* C14 as claimed: verify2FALoginToken fails with a mismatch ('No login
\* pending', 'Invalid login token') whenever no challenge is stored or the
\* stored token differs from the submitted one, also when the stored
\* challenge has expired; it fails with 'Login session expired' when the
\* token matches and now > expiresAt; otherwise it succeeds and clears the
\* challenge.
C14_ConsumeMismatchFirst ==
  \A w \in DOMAIN req :
    TokenChecked(w) =>
      /\ (req[w].h_stored \in {"absent", "differs"})
            => TokenFailedWith(w, {"NoLoginPending", "InvalidLoginToken"})
      /\ (req[w].h_stored = "matches" /\ req[w].h_tokLate)
            => TokenFailedWith(w, {"LoginSessionExpired"})
      /\ (req[w].h_stored = "matches" /\ ~req[w].h_tokLate)
            => TokenPassed(req[w])

\* C14, amended: verify2FALoginToken fails with 'No login pending' when no
\* challenge is stored; with 'Login session expired' whenever the stored
\* challenge is past expiresAt, whether or not the token matches; with
\* 'Invalid login token' when the stored challenge has not expired and its
\* token differs; otherwise it succeeds and clears the challenge.
C14_State ==
  \A w \in DOMAIN req :
    TokenChecked(w) =>
      /\ (req[w].h_stored = "absent") => TokenFailedWith(w, {"NoLoginPending"})
      /\ (req[w].h_stored # "absent" /\ req[w].h_tokLate)
            => TokenFailedWith(w, {"LoginSessionExpired"})
      /\ (req[w].h_stored = "differs" /\ ~req[w].h_tokLate)
            => TokenFailedWith(w, {"InvalidLoginToken"})
      /\ (req[w].h_stored = "matches" /\ ~req[w].h_tokLate)
            => TokenPassed(req[w])

C14_ConsumeExpiryFirst == []C14_State /\ [][C14_Clears]_vars

\* a wrong token is submitted after the challenge has expired
C14_Witness ==
  \E w \in DOMAIN req :
    /\ TokenChecked(w)
    /\ req[w].h_stored = "differs"
    /\ req[w].h_tokLate
    /\ req[w].result = "LoginSessionExpired"

-----------------------------------------------------------------------------
(* C15 *)

\* C15: verifyEmail2FACode, as POST /api/2fa/verify-email reports it, fails
\* with 'No 2FA code pending' if no code is stored; else with '2FA code
\* expired' if the stored code is past expiresAt; else with 'Invalid 2FA
\* code' if the codes differ; else it succeeds and clears the stored code,
\* so that the next verify-email request is answered 'No 2FA code pending'.
C15_State ==
  \A w \in DOMAIN req :
    LET r == req[w] IN
    (r.op = "verifyEmailAuth" /\ r.h_codeStored # "none") =>
      /\ (r.h_codeStored = "absent")
            => (r.pc = "done" /\ r.result = "No2FACodePending")
      /\ (r.h_codeStored # "absent" /\ r.h_codeLate)
            => (r.pc = "done" /\ r.result = "2FACodeExpired")
      /\ (r.h_codeStored = "differs" /\ ~r.h_codeLate)
            => (r.pc = "done" /\ r.result = "Invalid2FACode")
      /\ (r.h_codeStored = "matches" /\ ~r.h_codeLate) => EmailPassed(r)

C15_Step ==
  \A w \in DOMAIN req :
    /\ (req[w].pc = "clearEmailCode" /\ req'[w].pc # "clearEmailCode") =>
          /\ profiles'[req[w].user].two_factor_email_code = NULL
          /\ profiles'[req[w].user].two_factor_email_expires_at = NULL
    /\ (req[w].pc = "done" /\ req[w].result = "EmailVerified"
          /\ req'[w] # req[w] /\ req'[w].op = "verifyEmailAuth"
          /\ req'[w].user = req[w].user) =>
          (req'[w].pc = "done" /\ req'[w].result = "No2FACodePending")

C15_EmailVerifyOrder == []C15_State /\ [][C15_Step]_vars

\* a wrong code is submitted after the stored code has expired
C15_Witness ==
  \E w \in DOMAIN req :
    /\ req[w].op = "verifyEmailAuth"
    /\ req[w].h_codeStored = "differs"
    /\ req[w].h_codeLate
    /\ req[w].result = "2FACodeExpired"

\* a verify-email request repeated after a success
C15_WitnessRepeat ==
  \E w \in DOMAIN req :
    /\ req[w].op = "verifyEmailAuth"
    /\ req[w].result = "No2FACodePending"
    /\ hist[req[w].user].codeUses = 1

-----------------------------------------------------------------------------
(* C16 *)

\* the request w is the completeLogin of Scenario C: the issued token and
\* the e-mailed code, submitted 11 minutes after the login handler answered
ScenarioC(w) ==
  /\ req[w].op = "verify2FALogin"
  /\ req[w].h_stored # "none"
  /\ req[w].h_scenarioC
  /\ profiles[req[w].user].two_factor_enabled
  /\ profiles[req[w].user].two_factor_type = "email"

\* C16 as claimed: the completeLogin of Scenario C fails because the e-mail
\* code has expired.
C16_ScenarioC_ExpiredCode ==
  \A w \in DOMAIN req :
    ScenarioC(w) => (req[w].pc = "done" /\ req[w].result = "2FACodeExpired")

\* C16, amended: the completeLogin of Scenario C fails because the challenge
\* has expired ('Login session expired'); the e-mail code is not examined
\* and stays stored.
C16_ScenarioC_ExpiredChallenge ==
  \A w \in DOMAIN req :
    ScenarioC(w) =>
      /\ req[w].pc = "done"
      /\ req[w].result = "LoginSessionExpired"
      /\ req[w].h_codeStored = "none"
      /\ profiles[req[w].user].two_factor_email_code # NULL

C16_Witness ==
  \E w \in DOMAIN req :
    /\ ScenarioC(w)
    /\ req[w].result = "LoginSessionExpired"
    /\ now = hist[req[w].user].loginAt + 11
    /\ req[w].h_lastTok

-----------------------------------------------------------------------------
(* C17 *)

Distinct(codes) ==
  \A i, j \in DOMAIN codes : i # j => codes[i] # codes[j]

\* C17: a verify-google request answered with success returns eight
\* pairwise distinct recovery codes, the row then holds exactly those codes,
\* and the status is enabled with the authenticator method; a request made
\* without a stored secret fails ('2FA not initialized'), one with an
\* invalid code fails, and both leave the row as it was.
C17_Step ==
  \A w \in DOMAIN req :
    (req'[w] # req[w] /\ req'[w].op = "verifyGoogleAuth" /\ req'[w].pc = "done") =>
      LET r == req'[w]
          old == profiles[r.user]
          new == profiles'[r.user]
      IN  /\ (r.result = "GoogleEnabled") =>
                /\ Len(r.codes) = 8
                /\ Distinct(r.codes)
                /\ new.two_factor_recovery_codes = {r.codes}
                /\ StatusEnabled(new)
                /\ StatusMethod(new) = "google"
          /\ (old.two_factor_secret = NULL) => r.result = "NotInitialized"
          /\ (r.result \in {"NotInitialized", "InvalidVerificationCode"})
                => profiles' = profiles
          /\ r.result \in {"GoogleEnabled", "NotInitialized", "InvalidVerificationCode"}

C17_ScenarioA == [][C17_Step]_vars

-----------------------------------------------------------------------------
(* C18 *)

\* C18: in every reachable state the stored recovery codes of an identity
\* are at most 8, and there are stored codes only while the identity's
\* method is the authenticator and the factor is confirmed and enabled.
C18_RecoveryCodesOnlyForTotp ==
  \A u \in DOMAIN profiles :
    LET row == profiles[u] IN
    (row.two_factor_recovery_codes # NoCodes) =>
      /\ Len(StoredCodes(row)) <= 8
      /\ (Len(StoredCodes(row)) > 0) =>
            /\ row.two_factor_type = "google"
            /\ row.two_factor_confirmed_at # NULL
            /\ row.two_factor_enabled

-----------------------------------------------------------------------------
(* C19 *)

\* C19: however enable-google and enable-email requests interleave, a step
\* that is not a disable leaves an enabled factor enabled, with its method
\* and its secret.
C19_Preserved ==
  \A u \in DOMAIN profiles :
    profiles[u].two_factor_enabled =>
      /\ profiles'[u].two_factor_enabled
      /\ profiles'[u].two_factor_type = profiles[u].two_factor_type
      /\ profiles'[u].two_factor_secret = profiles[u].two_factor_secret

C19_EnabledFactorStays ==
  [][(\E w \in DOMAIN req, u \in DOMAIN profiles : disable2FA(w, u))
       \/ C19_Preserved]_vars

-----------------------------------------------------------------------------
\* C21: no operation writes a raw e-mail code, challenge token or TOTP
\* secret to a log line or an error message: whatever a request has logged
\* is an identifier and an error kind, never the code it generated.
C21_NoSecretInLog ==
  \A w \in DOMAIN req : req[w].h_log # "code"

-----------------------------------------------------------------------------
\* C22: whatever puts and gets came before and whatever the time, a get
\* returns no snapshot whose expiresAt is earlier than now; a get that finds
\* an entry past its expiresAt removes it, leaves the other entries alone
\* and returns absent; and a get that returns a snapshot leaves the cache,
\* the entry's expiresAt included, as it was.
C22_GetNeverStale ==
  \A u \in CacheIds :
     LET i == CacheIndex(profileCache, u)
         got == getCachedProfile(profileCache, u, now)
     IN  /\ i = 0 => ~got.hit /\ got.cache = profileCache
         /\ i # 0 /\ profileCache[i].expiresAt < now =>
              /\ ~got.hit
              /\ got.profile = <<>>
              /\ CacheIndex(got.cache, u) = 0
              /\ got.cache = SelectSeq(profileCache, LAMBDA e : e.key # u)
         /\ got.hit =>
              /\ i # 0
              /\ profileCache[i].expiresAt >= now
              /\ got.profile = <<profileCache[i].profile>>
              /\ got.cache = profileCache

\* a request found a stale entry, which is gone, while another entry stays
C22_Witness ==
  \E w \in DOMAIN req :
     /\ req[w].op = "authenticate"
     /\ req[w].h_cache = "stale"
     /\ req[w].pc = "fetchProfile"
     /\ CacheIndex(profileCache, req[w].user) = 0
     /\ Len(profileCache) > 0

-----------------------------------------------------------------------------
\* C23: the cache never holds more than the ceiling plus one entries; and a
\* put made while it holds more than the ceiling first evicts a fifth of
\* the entries (rounded down), none of which expires later than an entry
\* that is kept, then inserts: the kept entries stay as they were and the
\* new key is present with a fresh expiresAt.
C23_CapacityBound ==
  /\ Len(profileCache) <= CacheCeiling + 1
  /\ \A u \in CacheIds :
       Len(profileCache) > CacheCeiling /\ CacheIndex(profileCache, u) = 0 =>
         LET after == setCachedProfile(profileCache, u, profiles[u], now)
             keysAfter == {after[i].key : i \in 1..Len(after)}
             gone == {i \in 1..Len(profileCache) :
                        profileCache[i].key \notin keysAfter}
             kept == (1..Len(profileCache)) \ gone
         IN  /\ Cardinality(gone) = (20 * Len(profileCache)) \div 100
             /\ \A i \in gone, j \in kept :
                  profileCache[i].expiresAt <= profileCache[j].expiresAt
             /\ \A j \in kept :
                  \E k \in 1..Len(after) : after[k] = profileCache[j]
             /\ \E k \in 1..Len(after) :
                  /\ after[k].key = u
                  /\ after[k].expiresAt = now + CacheTTL
             /\ Len(after) = Len(profileCache) - Cardinality(gone) + 1

\* a put has evicted, and the cache is full again
C23_Witness ==
  \E w \in DOMAIN req :
     /\ req[w].op = "authenticate"
     /\ req[w].pc = "done"
     /\ req[w].h_evict
     /\ Len(profileCache) = CacheCeiling + 1

-----------------------------------------------------------------------------
\* C29: once a suspendUser of an identity has answered with its success,
\* every authenticate that begins afterwards with the identity's valid
\* token is rejected as suspended, whatever the profile cache holds.
C29_SuspendedIsRejected ==
  \A w \in DOMAIN req :
     /\ req[w].op = "authenticate"
     /\ req[w].pc = "done"
     /\ req[w].h_suspended
     => req[w].result = "Suspended"

-----------------------------------------------------------------------------
\* C24: a step changes the row of an identity (its factor state, challenge,
\* e-mail code and recovery set) only if it is a step of a request made for
\* that identity; and a token or a code is accepted for an identity only if
\* it is the one stored for that identity, whatever was issued for another.
C24_State ==
  \A w \in DOMAIN req :
    LET r == req[w] IN
    /\ TokenPassed(r) => r.h_token /\ r.h_lastTok
    /\ EmailPassed(r) => r.h_code /\ r.h_lastCode

C24_Step ==
  \A u \in DOMAIN profiles :
     profiles'[u] # profiles[u] =>
       \E w \in DOMAIN req : req'[w] # req[w] /\ req'[w].user = u

C24_IdentitiesIndependent == []C24_State /\ [][C24_Step]_vars

\* the token issued for the first identity was submitted for the second,
\* whose own challenge differs, and was rejected
C24_Witness ==
  \E w \in DOMAIN req :
     /\ req[w].op = "verify2FALogin"
     /\ req[w].user = 2
     /\ req[w].pc = "done"
     /\ req[w].result = "InvalidLoginToken"
     /\ profiles[1].two_factor_enabled
     /\ profiles[1].two_factor_login_token = 2
     /\ profiles[2].two_factor_login_token = 1

-----------------------------------------------------------------------------
\* C25: for every secret and every time, the code of time step k is
\* accepted if the server's current 30-second step is one of k-2..k+2, and
\* rejected if it is not.
C25_SkewWindow ==
  totp # <<>> /\ totp.verified # "none" =>
    LET current == totp.at \div 30 IN
    totp.verified = "accepted" <=>
      (totp.step - 2 <= current /\ current <= totp.step + 2)

\* a code was accepted two steps after its own, at the last second of the
\* window
C25_Witness ==
  /\ totp # <<>>
  /\ totp.verified = "accepted"
  /\ totp.at \div 30 = totp.step + 2
  /\ totp.seconds = totp.at

\* a code was rejected three steps after its own
C25_WitnessRejected ==
  /\ totp # <<>>
  /\ totp.verified = "rejected"
  /\ totp.at \div 30 = totp.step + 3

-----------------------------------------------------------------------------
\* C26: the soft delete of a car is terminal.  A deleted car is never
\* changed again, and every request of any user that begins after the
\* delete has succeeded answers 404 for its slug, be it a GET, a PUT or
\* another DELETE, while the lists leave the car out.
C26_State ==
  \A w \in DOMAIN req :
    LET r == req[w] IN
    /\ (r.pc = "done" /\ r.h_gone /\
        r.op \in {"getCarBySlug", "updateCar", "deleteCar"})
         => r.result = "CarNotFound"
    /\ (r.pc = "done" /\ r.op = "getCars") => ~r.h_gone
    /\ (r.h_gone /\ r.op \in {"updateCar", "deleteCar"}) => r.pc = "done"

C26_Step ==
  \A s \in DOMAIN cars :
     cars[s].deleted_at # NULL => cars'[s] = cars[s]

-----------------------------------------------------------------------------
\* C27: a verification that fails leaves what it checked as it was.  No
\* step of a request whose token did not match the stored one, or came
\* after its expiry, changes the stored challenge; no step of a request
\* whose e-mail code did not match, or came late, changes the stored code;
\* no step of a recovery request whose code is not in the stored set
\* changes the set; and the step that reports the failure writes nothing.
\* (A step of a request is one that changes more of it than h_cur, which
\* the login of another request resets.)
C27_Step ==
  \A w \in DOMAIN req :
    LET r == req'[w]
        old == profiles[r.user]
        new == profiles'[r.user]
    IN  ([r EXCEPT !.h_cur = req[w].h_cur] # req[w] /\
         r.op \in {"verify2FALogin", "verifyRecoveryCode", "verifyEmailAuth"}) =>
          /\ (r.h_stored = "differs" \/ r.h_tokLate) =>
               /\ new.two_factor_login_token = old.two_factor_login_token
               /\ new.two_factor_login_expires_at = old.two_factor_login_expires_at
          /\ (r.h_codeStored = "differs" \/ r.h_codeLate) =>
               /\ new.two_factor_email_code = old.two_factor_email_code
               /\ new.two_factor_email_expires_at = old.two_factor_email_expires_at
          /\ (r.op = "verifyRecoveryCode" /\ ~r.h_code) =>
               new.two_factor_recovery_codes = old.two_factor_recovery_codes
          /\ (r.pc = "done" /\
              r.result \in TokenFailures \cup
                 {"Invalid2FACode", "No2FACodePending", "2FACodeExpired",
                  "InvalidRecoveryCode", "NoRecoveryCodes"}) =>
               profiles' = profiles

C27_FailedVerifyKeepsRecord == [][C27_Step]_vars

\* a recovery code that is not in the set was refused and the eight codes
\* are still stored
C27_Witness ==
  \E w \in DOMAIN req :
    /\ req[w].op = "verifyRecoveryCode"
    /\ req[w].pc = "done"
    /\ req[w].result = "InvalidRecoveryCode"
    /\ Len(StoredCodes(profiles[req[w].user])) = RecoveryCount

\* a token that is not the stored one was refused and the challenge is
\* still stored
C27_WitnessToken ==
  \E w \in DOMAIN req :
    /\ req[w].op = "verify2FALogin"
    /\ req[w].pc = "done"
    /\ req[w].h_stored = "differs"
    /\ req[w].result = "InvalidLoginToken"
    /\ profiles[req[w].user].two_factor_login_token # NULL

-----------------------------------------------------------------------------
\* C28: verify2FALogin completes a login only if the factor of the identity
\* is enabled when the handler reads the profile: not after the factor was
\* disabled, and not against a TOTP secret that is stored but unconfirmed.
C28_VerifiedOnlyIfEnabled ==
  \A w \in DOMAIN req :
    (req[w].op = "verify2FALogin" /\ req[w].pc = "done"
       /\ req[w].result = "Authenticated")
      => req[w].h_enabled

-----------------------------------------------------------------------------
\* C30: a password is reset only with the token that a successful
\* verifyPasswordResetOTP stored after the latest sendPasswordResetOTP for
\* the address: a token issued before the latest OTP request resets
\* nothing, nor does a token that has been used.
C30_ResetOnlyWithFreshToken ==
  \A w \in DOMAIN req :
    (req[w].op = "resetPassword" /\ req[w].pc = "done"
       /\ req[w].result = "PasswordReset")
      => ~req[w].h_oldToken

====
